---- MODULE Spec2Model ----
(***************************************************************************)
(* Model of src/production_phase/decision_logic_distributed.py:            *)
(* DistributedOrchestrator, the carbon-aware decision and routing engine.  *)
(*                                                                         *)
(* Every caller p runs one public operation at a time                      *)
(* (get_live_grid_status or get_optimized_forecast).  An operation is cut  *)
(* into steps at its calls to the outside world: the sensor read, the      *)
(* control-plane list, the start or stop, the warm-up sleep and each       *)
(* downstream HTTP call.  Everything the code does between two such calls  *)
(* belongs to the step of the earlier call.                                *)
(*                                                                         *)
(* Text is modelled as a sequence of tokens, so that the substring test of *)
(* the container lookup and the f-strings of the error messages are        *)
(* computed rather than assumed.                                           *)
(***************************************************************************)
EXTENDS Integers, Sequences, FiniteSets, TLC

\* ------------------------------------------------------------------ bounds

\* Longest container listing the control plane returns.
MaxContainers == 2

\* ------------------------------------------------------- program constants

\* time.sleep(5) after target.start()
WarmupDelay == 5
\* timeout=15 of the call to the XGBoost service
XgbTimeout == 15
\* timeout=10, the default of _call_service
DefaultTimeout == 10
\* emissions = 0.0 when the service reports none (unit: grams)
DefaultEmissions == 0

XGB_URL == "http://xgb_predict_service:8001/predict/"
HW_URL == "http://hw_predict_service:8002/predict/"

\* HEAVY_CONTAINER_NAME, as tokens
container_name == <<"xgb_service">>

LabelPerformance == "XGBoost (Performance Mode)"
LabelFallback == "Holt-Winters (Auto-Fallback)"
LabelEco == "Holt-Winters (Eco Mode)"

\* --------------------------------------------------------------- callers

Procs == {1, 2}
\* The callers of the sequential specification and of the concurrent one.
SeqCallers == {1}
ConcCallers == Procs

\* ------------------------------------------------------------ text helpers

\* Python's `needle in hay` on strings, over token sequences.
Contains(hay, needle) ==
    \E i \in 0..(Len(hay) - Len(needle)) :
        \A j \in 1..Len(needle) : hay[i + j] = needle[j]

\* ----------------------------------------------------------------- sensor

Status == {"LOW", "HIGH"}
NoMode == "None"
Modes == Status \cup {NoMode}

Readings ==
    { [carbon_intensity |-> 50, status |-> "LOW"],
      [carbon_intensity |-> 600, status |-> "HIGH"] }

NoReading == [carbon_intensity |-> -1, status |-> "None"]

\* CarbonSimulator.get_current_carbon_intensity(force_mode): the readings one
\* read can return.  A forced mode fixes the status; otherwise any reading.
get_current_carbon_intensity(force_mode) ==
    IF force_mode = NoMode
    THEN Readings
    ELSE {r \in Readings : r.status = force_mode}

\* ---------------------------------------------------------- control plane

\* docker's container states: RUNNING, STOPPED, and one of the others
\* (created, paused, ...), which the spec calls UNKNOWN.
ContainerStatus == {"running", "exited", "created"}

HeavyName == <<"energy-grid", "xgb_service", "1">>
OtherName == <<"energy-grid", "hw_service", "1">>

\* The containers a listing may hold: the other services of the deployment,
\* which are up, and containers of the heavy service in any state.
ContainerPool ==
    { [name |-> OtherName, status |-> "running"] }
    \cup { [name |-> HeavyName, status |-> s] : s \in ContainerStatus }

Listings == UNION { [1..n -> ContainerPool] : n \in 0..MaxContainers }

\* next((c for c in containers if self.container_name in c.name), None):
\* the index of the first match, 0 for None.
FindTarget(cs) ==
    LET hits == {i \in 1..Len(cs) : Contains(cs[i].name, container_name)}
    IN IF hits = {} THEN 0 ELSE CHOOSE i \in hits : \A k \in hits : i <= k

NoTarget == [idx |-> 0, status |-> "None"]

\* The AUTO-SCALING LOGIC: what manage_infrastructure does to a found target.
ScaleStopsOnly(carbon_status, target_status) ==
    IF carbon_status = "HIGH" THEN "stop" ELSE "none"
ScaleIgnoresState(carbon_status, target_status) ==
    IF carbon_status = "HIGH" THEN "stop" ELSE "start"
ScaleStartsExitedOnly(carbon_status, target_status) ==
    IF carbon_status = "HIGH" /\ target_status = "running" THEN "stop"
    ELSE IF carbon_status = "LOW" /\ target_status = "exited" THEN "start"
    ELSE "none"

ScaleAction(carbon_status, target_status) ==
    IF carbon_status = "HIGH" /\ target_status = "running" THEN "stop"
    ELSE IF carbon_status = "LOW" /\ target_status # "running" THEN "start"
    ELSE "none"

\* `except Exception as e` of manage_infrastructure: what it catches.
ManageCatchesNothing(exc) == FALSE
ManageCatches(exc) == TRUE

DockerError == [type |-> "DockerException", msg |-> <<"docker api error">>]

\* ------------------------------------------------------ downstream services

Rows1 == << [datetime_utc |-> 1, value |-> 10] >>
\* a row without a datetime_utc field
Rows2 == << [datetime_utc |-> 0, value |-> 5] >>

\* What one HTTP GET can meet.
Responses ==
    { [kind |-> "timeout", shape |-> "none", data |-> <<>>, has_carbon |-> FALSE, carbon |-> 0],
      [kind |-> "http_error", shape |-> "none", data |-> <<>>, has_carbon |-> FALSE, carbon |-> 0],
      [kind |-> "ok", shape |-> "scalar", data |-> <<>>, has_carbon |-> FALSE, carbon |-> 0],
      [kind |-> "ok", shape |-> "dict", data |-> Rows1, has_carbon |-> TRUE, carbon |-> 20],
      [kind |-> "ok", shape |-> "dict", data |-> Rows1, has_carbon |-> FALSE, carbon |-> 0],
      [kind |-> "ok", shape |-> "list", data |-> Rows2, has_carbon |-> FALSE, carbon |-> 0] }

NoneDf == [none |-> TRUE, rows |-> <<>>, indexed |-> FALSE]
NoExc == [type |-> "None", msg |-> <<>>]

\* pd.DataFrame(data_rows) and the datetime_utc indexing.
DataFrame(data_rows) ==
    [none |-> FALSE,
     rows |-> data_rows,
     indexed |-> (Len(data_rows) > 0
                  /\ \A i \in 1..Len(data_rows) : data_rows[i].datetime_utc # 0)]

\* _call_service(base_url, country_code, timeout) meeting response resp:
\* either (df, emissions) or the exception it raises.  A requests exception
\* (connection, timeout, non-2xx) is re-raised as ConnectionError with the
\* url in its text; a payload pandas cannot shape raises ValueError as is.
call_service(base_url, resp) ==
    IF resp.kind = "timeout"
    THEN [exc |-> [type |-> "ConnectionError",
                   msg |-> <<"Service unreachable at", base_url, "timed out">>],
          df |-> NoneDf, emissions |-> 0]
    ELSE IF resp.kind = "http_error"
    THEN [exc |-> [type |-> "ConnectionError",
                   msg |-> <<"Service unreachable at", base_url, "500 Server Error">>],
          df |-> NoneDf, emissions |-> 0]
    ELSE IF resp.shape = "scalar"
    THEN [exc |-> [type |-> "ValueError",
                   msg |-> <<"DataFrame constructor not properly called!">>],
          df |-> NoneDf, emissions |-> 0]
    ELSE IF resp.shape = "dict"
    THEN [exc |-> NoExc, df |-> DataFrame(resp.data),
          emissions |-> IF resp.has_carbon THEN resp.carbon ELSE DefaultEmissions]
    ELSE [exc |-> NoExc, df |-> DataFrame(resp.data), emissions |-> DefaultEmissions]

\* `except Exception` of the routing step: what it catches.
RouteCatchesConnectionError(exc) == exc.type = "ConnectionError"
RouteCatches(exc) == TRUE

\* Step 3's branch: the service called first for a status.
FirstServiceAlwaysXgb(intensity_status) == XGB_URL
FirstService(intensity_status) ==
    IF intensity_status = "LOW" THEN XGB_URL ELSE HW_URL

TimeoutOf(url) == IF url = XGB_URL THEN XgbTimeout ELSE DefaultTimeout

\* f"ALL services failed: {fallback_err}" (primary_err is `e`, in scope there)
AllFailedMessage(primary_err, fallback_err) ==
    <<"ALL services failed:">> \o fallback_err.msg

\* f"Eco-service unavailable: {e}"
EcoFailedMessage(e) == <<"Eco-service unavailable:">> \o e.msg

\* return None, {"error": ...}
FailureOutcome(message) == << NoneDf, [error |-> message] >>

\* return df, {"selected_model": ..., "carbon_context": ..., ...}
SuccessWithoutContext(df, selected_model, carbon_data, execution_carbon) ==
    << df, [selected_model |-> selected_model,
            execution_carbon_footprint_kg |-> execution_carbon] >>
SuccessOutcome(df, selected_model, carbon_data, execution_carbon) ==
    << df, [selected_model |-> selected_model,
            carbon_context |-> carbon_data,
            execution_carbon_footprint_kg |-> execution_carbon] >>

\* selected_model after a successful fallback call
FallbackLabelEco == LabelEco
FallbackLabel == LabelFallback

\* ------------------------------------------------------------------ state

VARIABLES
    docker_client,      \* TRUE when _connect_to_docker got a handle
    containers,         \* the control plane's containers, in listing order
    pc,                 \* each caller's position
    op,                 \* the operation each caller runs
    carbon_data,        \* the reading of the running operation
    intensity_status,   \* get_optimized_forecast's local
    carbon_status,      \* manage_infrastructure's argument
    target,             \* manage_infrastructure's target: index and listed status
    primary_err,        \* `e` of the LOW branch's except clause
    log,                \* the outside calls the running operation has made
    responses,          \* what each of its downstream calls met, in order
    ret                 \* what the operation returned: <<>> before it has

vars == << docker_client, containers, pc, op, carbon_data, intensity_status,
           carbon_status, target, primary_err, log, responses, ret >>

\* One outside call: what was called, with what, whether it returned without
\* raising, the time it may take, and the text of what it raised.
Event(ev, arg, ok, t, err) == [ev |-> ev, arg |-> arg, ok |-> ok, t |-> t, err |-> err]

\* The state after construction: a handle or none, and the containers that exist.
InitWith(listings, handles) ==
    /\ docker_client \in handles
    /\ containers \in listings
    /\ pc = [p \in Procs |-> "idle"]
    /\ op = [p \in Procs |-> "none"]
    /\ carbon_data = [p \in Procs |-> NoReading]
    /\ intensity_status = [p \in Procs |-> "None"]
    /\ carbon_status = [p \in Procs |-> "None"]
    /\ target = [p \in Procs |-> NoTarget]
    /\ primary_err = [p \in Procs |-> NoExc]
    /\ log = [p \in Procs |-> <<>>]
    /\ responses = [p \in Procs |-> <<>>]
    /\ ret = [p \in Procs |-> <<>>]

Init == InitWith(Listings, BOOLEAN)

Ready(p) == pc[p] \in {"idle", "returned"}

\* ------------------------------------------------------------- operations

\* get_live_grid_status up to its call of manage_infrastructure.
get_live_grid_status(p) ==
    /\ Ready(p)
    /\ \E carbon_mode \in Modes :
         \E data \in get_current_carbon_intensity(carbon_mode) :
            /\ carbon_data' = [carbon_data EXCEPT ![p] = data]
            /\ carbon_status' = [carbon_status EXCEPT ![p] = data.status]
            /\ log' = [log EXCEPT ![p] = << Event("read", data.status, TRUE, 0, <<>>),
                                             Event("manage", data.status, TRUE, 0, <<>>) >>]
    /\ op' = [op EXCEPT ![p] = "get_live_grid_status"]
    /\ pc' = [pc EXCEPT ![p] = "manage"]
    /\ intensity_status' = [intensity_status EXCEPT ![p] = "None"]
    /\ target' = [target EXCEPT ![p] = NoTarget]
    /\ primary_err' = [primary_err EXCEPT ![p] = NoExc]
    /\ ret' = [ret EXCEPT ![p] = <<>>]
    /\ responses' = [responses EXCEPT ![p] = <<>>]
    /\ UNCHANGED << docker_client, containers >>

\* A variant of get_optimized_forecast that samples the sensor a second time
\* for the routing step instead of keeping the first reading.
get_optimized_forecast_resample(p) ==
    /\ Ready(p)
    /\ \E carbon_mode \in Modes :
         \E data \in get_current_carbon_intensity(carbon_mode) :
           \E again \in get_current_carbon_intensity(carbon_mode) :
            /\ carbon_data' = [carbon_data EXCEPT ![p] = again]
            /\ intensity_status' = [intensity_status EXCEPT ![p] = again.status]
            /\ carbon_status' = [carbon_status EXCEPT ![p] = data.status]
            /\ log' = [log EXCEPT ![p] = << Event("read", data.status, TRUE, 0, <<>>),
                                             Event("read", again.status, TRUE, 0, <<>>),
                                             Event("manage", data.status, TRUE, 0, <<>>) >>]
    /\ op' = [op EXCEPT ![p] = "get_optimized_forecast"]
    /\ pc' = [pc EXCEPT ![p] = "manage"]
    /\ target' = [target EXCEPT ![p] = NoTarget]
    /\ primary_err' = [primary_err EXCEPT ![p] = NoExc]
    /\ ret' = [ret EXCEPT ![p] = <<>>]
    /\ responses' = [responses EXCEPT ![p] = <<>>]
    /\ UNCHANGED << docker_client, containers >>

\* get_optimized_forecast up to its call of manage_infrastructure.
get_optimized_forecast(p) ==
    /\ Ready(p)
    /\ \E carbon_mode \in Modes :
         \E data \in get_current_carbon_intensity(carbon_mode) :
            /\ carbon_data' = [carbon_data EXCEPT ![p] = data]
            /\ intensity_status' = [intensity_status EXCEPT ![p] = data.status]
            /\ carbon_status' = [carbon_status EXCEPT ![p] = data.status]
            /\ log' = [log EXCEPT ![p] = << Event("read", data.status, TRUE, 0, <<>>),
                                             Event("manage", data.status, TRUE, 0, <<>>) >>]
    /\ op' = [op EXCEPT ![p] = "get_optimized_forecast"]
    /\ pc' = [pc EXCEPT ![p] = "manage"]
    /\ target' = [target EXCEPT ![p] = NoTarget]
    /\ primary_err' = [primary_err EXCEPT ![p] = NoExc]
    /\ ret' = [ret EXCEPT ![p] = <<>>]
    /\ responses' = [responses EXCEPT ![p] = <<>>]
    /\ UNCHANGED << docker_client, containers >>

\* A variant of the return that hands back nothing.
StatusOutcomeNone(data) == <<>>
\* The return of get_live_grid_status.
StatusOutcome(data) == << data >>

\* manage_infrastructure returns to its caller: get_live_grid_status returns
\* the reading, get_optimized_forecast goes on to route.
ManageReturns(p) ==
    IF op[p] = "get_live_grid_status"
    THEN /\ pc' = [pc EXCEPT ![p] = "returned"]
         /\ ret' = [ret EXCEPT ![p] = StatusOutcome(carbon_data[p])]
    ELSE /\ pc' = [pc EXCEPT ![p] = "route"]
         /\ UNCHANGED ret

\* An exception raised inside manage_infrastructure's try block.
ManageRaises(p, exc) ==
    IF ManageCatches(exc)
    THEN ManageReturns(p)
    ELSE /\ pc' = [pc EXCEPT ![p] = "raised"]
         /\ UNCHANGED ret

\* A variant of manage_infrastructure that treats a missing handle as an
\* error of the request instead of returning.
manage_list_requires_handle(p) ==
    /\ pc[p] = "manage"
    /\ IF ~docker_client
       THEN /\ pc' = [pc EXCEPT ![p] = "raised"]
            /\ UNCHANGED << target, log, ret >>
       ELSE \E list_ok \in BOOLEAN :
              IF ~list_ok
              THEN /\ log' = [log EXCEPT ![p] = Append(@, Event("list", "error", FALSE, 0, DockerError.msg))]
                   /\ ManageRaises(p, DockerError)
                   /\ UNCHANGED target
              ELSE LET i == FindTarget(containers)
                   IN IF i = 0
                      THEN /\ log' = [log EXCEPT ![p] =
                                        Append(@, Event("list", "not_found", TRUE, 0, <<>>))]
                           /\ ManageReturns(p)
                           /\ UNCHANGED target
                      ELSE /\ log' = [log EXCEPT ![p] =
                                        Append(@, Event("list", containers[i].status, TRUE, 0, <<>>))]
                           /\ target' = [target EXCEPT ![p] =
                                           [idx |-> i, status |-> containers[i].status]]
                           /\ pc' = [pc EXCEPT ![p] = "scale"]
                           /\ UNCHANGED ret
    /\ UNCHANGED << docker_client, containers, op, carbon_data, intensity_status,
                    carbon_status, primary_err, responses >>

\* manage_infrastructure without a handle (`if not self.docker_client`), or
\* its containers.list: it raises, finds no target, or finds one.
manage_list(p) ==
    /\ pc[p] = "manage"
    /\ IF ~docker_client
       THEN /\ ManageReturns(p)
            /\ UNCHANGED << target, log >>
       ELSE \E list_ok \in BOOLEAN :
              IF ~list_ok
              THEN /\ log' = [log EXCEPT ![p] = Append(@, Event("list", "error", FALSE, 0, DockerError.msg))]
                   /\ ManageRaises(p, DockerError)
                   /\ UNCHANGED target
              ELSE LET i == FindTarget(containers)
                   IN IF i = 0
                      THEN /\ log' = [log EXCEPT ![p] =
                                        Append(@, Event("list", "not_found", TRUE, 0, <<>>))]
                           /\ ManageReturns(p)
                           /\ UNCHANGED target
                      ELSE /\ log' = [log EXCEPT ![p] =
                                        Append(@, Event("list", containers[i].status, TRUE, 0, <<>>))]
                           /\ target' = [target EXCEPT ![p] =
                                           [idx |-> i, status |-> containers[i].status]]
                           /\ pc' = [pc EXCEPT ![p] = "scale"]
                           /\ UNCHANGED ret
    /\ UNCHANGED << docker_client, containers, op, carbon_data, intensity_status,
                    carbon_status, primary_err, responses >>

\* Neither branch of the AUTO-SCALING LOGIC applies: nothing is called.
manage_noop(p) ==
    /\ pc[p] = "scale"
    /\ ScaleAction(carbon_status[p], target[p].status) = "none"
    /\ ManageReturns(p)
    /\ UNCHANGED << docker_client, containers, op, carbon_data, intensity_status,
                    carbon_status, target, primary_err, log, responses >>

\* target.stop(): it stops the container, or raises.
manage_stop(p) ==
    /\ pc[p] = "scale"
    /\ ScaleAction(carbon_status[p], target[p].status) = "stop"
    /\ \E stop_ok \in BOOLEAN :
         /\ log' = [log EXCEPT ![p] = Append(@, Event("stop", "", stop_ok, 0, IF stop_ok THEN <<>> ELSE DockerError.msg))]
         /\ IF stop_ok
            THEN /\ containers' = [containers EXCEPT ![target[p].idx].status = "exited"]
                 /\ ManageReturns(p)
            ELSE /\ ManageRaises(p, DockerError)
                 /\ UNCHANGED containers
    /\ UNCHANGED << docker_client, op, carbon_data, intensity_status,
                    carbon_status, target, primary_err, responses >>

\* A variant of the start branch that returns right after target.start().
manage_start_nowait(p) ==
    /\ pc[p] = "scale"
    /\ ScaleAction(carbon_status[p], target[p].status) = "start"
    /\ \E start_ok \in BOOLEAN :
         /\ log' = [log EXCEPT ![p] = Append(@, Event("start", "", start_ok, 0, IF start_ok THEN <<>> ELSE DockerError.msg))]
         /\ IF start_ok
            THEN /\ containers' = [containers EXCEPT ![target[p].idx].status = "running"]
                 /\ ManageReturns(p)
            ELSE /\ ManageRaises(p, DockerError)
                 /\ UNCHANGED containers
    /\ UNCHANGED << docker_client, op, carbon_data, intensity_status,
                    carbon_status, target, primary_err, responses >>

\* target.start(): it starts the container and the sleep follows, or raises.
manage_start(p) ==
    /\ pc[p] = "scale"
    /\ ScaleAction(carbon_status[p], target[p].status) = "start"
    /\ \E start_ok \in BOOLEAN :
         /\ log' = [log EXCEPT ![p] = Append(@, Event("start", "", start_ok, 0, IF start_ok THEN <<>> ELSE DockerError.msg))]
         /\ IF start_ok
            THEN /\ containers' = [containers EXCEPT ![target[p].idx].status = "running"]
                 /\ pc' = [pc EXCEPT ![p] = "sleep"]
                 /\ UNCHANGED ret
            ELSE /\ ManageRaises(p, DockerError)
                 /\ UNCHANGED containers
    /\ UNCHANGED << docker_client, op, carbon_data, intensity_status,
                    carbon_status, target, primary_err, responses >>

\* time.sleep(5), then manage_infrastructure returns.
manage_sleep(p) ==
    /\ pc[p] = "sleep"
    /\ log' = [log EXCEPT ![p] = Append(@, Event("sleep", "", TRUE, WarmupDelay, <<>>))]
    /\ ManageReturns(p)
    /\ UNCHANGED << docker_client, containers, op, carbon_data, intensity_status,
                    carbon_status, target, primary_err, responses >>

\* An exception raised by a downstream call that no except clause catches.
RouteEscapes(p) ==
    /\ pc' = [pc EXCEPT ![p] = "raised"]
    /\ UNCHANGED << ret, primary_err >>

\* A variant of the first call that goes to XGBoost only when the container
\* it found is running, and to Holt-Winters otherwise.
route_primary_checks_target(p) ==
    /\ pc[p] = "route"
    /\ LET url == IF /\ intensity_status[p] = "LOW"
                     /\ target[p] # NoTarget
                     /\ containers[target[p].idx].status = "running"
                  THEN XGB_URL ELSE HW_URL
       IN \E resp \in Responses :
            LET r == call_service(url, resp)
            IN /\ log' = [log EXCEPT ![p] =
                            Append(@, Event("call", url, r.exc = NoExc, TimeoutOf(url), r.exc.msg))]
               /\ responses' = [responses EXCEPT ![p] = Append(@, resp)]
               /\ IF r.exc = NoExc
                  THEN /\ ret' = [ret EXCEPT ![p] =
                                    SuccessOutcome(r.df,
                                        IF url = XGB_URL
                                        THEN LabelPerformance ELSE LabelEco,
                                        carbon_data[p], r.emissions)]
                       /\ pc' = [pc EXCEPT ![p] = "returned"]
                       /\ UNCHANGED primary_err
                  ELSE IF url = XGB_URL
                  THEN /\ primary_err' = [primary_err EXCEPT ![p] = r.exc]
                       /\ pc' = [pc EXCEPT ![p] = "fallback"]
                       /\ UNCHANGED ret
                  ELSE /\ ret' = [ret EXCEPT ![p] = FailureOutcome(EcoFailedMessage(r.exc))]
                       /\ pc' = [pc EXCEPT ![p] = "returned"]
                       /\ UNCHANGED primary_err
    /\ UNCHANGED << docker_client, containers, op, carbon_data, intensity_status,
                    carbon_status, target >>

\* A variant of the first call that gives the HIGH branch a second attempt too.
route_primary_retry(p) ==
    /\ pc[p] = "route"
    /\ LET url == FirstService(intensity_status[p])
       IN \E resp \in Responses :
            LET r == call_service(url, resp)
            IN /\ log' = [log EXCEPT ![p] =
                            Append(@, Event("call", url, r.exc = NoExc, TimeoutOf(url), r.exc.msg))]
               /\ responses' = [responses EXCEPT ![p] = Append(@, resp)]
               /\ IF r.exc = NoExc
                  THEN /\ ret' = [ret EXCEPT ![p] =
                                    SuccessOutcome(r.df,
                                        IF intensity_status[p] = "LOW"
                                        THEN LabelPerformance ELSE LabelEco,
                                        carbon_data[p], r.emissions)]
                       /\ pc' = [pc EXCEPT ![p] = "returned"]
                       /\ UNCHANGED primary_err
                  ELSE /\ primary_err' = [primary_err EXCEPT ![p] = r.exc]
                       /\ pc' = [pc EXCEPT ![p] = "fallback"]
                       /\ UNCHANGED ret
    /\ UNCHANGED << docker_client, containers, op, carbon_data, intensity_status,
                    carbon_status, target >>

\* Step 3, first call: XGBoost on LOW, Holt-Winters otherwise.
route_primary(p) ==
    /\ pc[p] = "route"
    /\ LET url == FirstService(intensity_status[p])
       IN \E resp \in Responses :
            LET r == call_service(url, resp)
            IN /\ log' = [log EXCEPT ![p] =
                            Append(@, Event("call", url, r.exc = NoExc, TimeoutOf(url), r.exc.msg))]
               /\ responses' = [responses EXCEPT ![p] = Append(@, resp)]
               /\ IF r.exc = NoExc
                  THEN /\ ret' = [ret EXCEPT ![p] =
                                    SuccessOutcome(r.df,
                                        IF intensity_status[p] = "LOW"
                                        THEN LabelPerformance ELSE LabelEco,
                                        carbon_data[p], r.emissions)]
                       /\ pc' = [pc EXCEPT ![p] = "returned"]
                       /\ UNCHANGED primary_err
                  ELSE IF ~RouteCatches(r.exc)
                  THEN RouteEscapes(p)
                  ELSE IF intensity_status[p] = "LOW"
                  THEN /\ primary_err' = [primary_err EXCEPT ![p] = r.exc]
                       /\ pc' = [pc EXCEPT ![p] = "fallback"]
                       /\ UNCHANGED ret
                  ELSE /\ ret' = [ret EXCEPT ![p] = FailureOutcome(EcoFailedMessage(r.exc))]
                       /\ pc' = [pc EXCEPT ![p] = "returned"]
                       /\ UNCHANGED primary_err
    /\ UNCHANGED << docker_client, containers, op, carbon_data, intensity_status,
                    carbon_status, target >>

\* A variant of the fallback call that repeats the call until it succeeds.
route_fallback_retry(p) ==
    /\ pc[p] = "fallback"
    /\ \E resp \in Responses :
         LET r == call_service(HW_URL, resp)
         IN /\ log' = [log EXCEPT ![p] =
                         Append(@, Event("call", HW_URL, r.exc = NoExc,
                                         TimeoutOf(HW_URL), r.exc.msg))]
            /\ responses' = [responses EXCEPT ![p] = Append(@, resp)]
            /\ IF r.exc = NoExc
               THEN /\ ret' = [ret EXCEPT ![p] =
                                 SuccessOutcome(r.df, FallbackLabel, carbon_data[p], r.emissions)]
                    /\ pc' = [pc EXCEPT ![p] = "returned"]
                    /\ UNCHANGED primary_err
               ELSE UNCHANGED << ret, pc, primary_err >>
    /\ UNCHANGED << docker_client, containers, op, carbon_data, intensity_status,
                    carbon_status, target >>

\* The LOW branch's fallback call to Holt-Winters.
route_fallback(p) ==
    /\ pc[p] = "fallback"
    /\ \E resp \in Responses :
         LET r == call_service(HW_URL, resp)
         IN /\ log' = [log EXCEPT ![p] =
                         Append(@, Event("call", HW_URL, r.exc = NoExc,
                                         TimeoutOf(HW_URL), r.exc.msg))]
            /\ responses' = [responses EXCEPT ![p] = Append(@, resp)]
            /\ IF r.exc = NoExc
               THEN /\ ret' = [ret EXCEPT ![p] =
                                 SuccessOutcome(r.df, FallbackLabel, carbon_data[p], r.emissions)]
                    /\ pc' = [pc EXCEPT ![p] = "returned"]
                    /\ UNCHANGED primary_err
               ELSE IF ~RouteCatches(r.exc)
               THEN RouteEscapes(p)
               ELSE /\ ret' = [ret EXCEPT ![p] =
                                 FailureOutcome(AllFailedMessage(primary_err[p], r.exc))]
                    /\ pc' = [pc EXCEPT ![p] = "returned"]
                    /\ UNCHANGED primary_err
    /\ UNCHANGED << docker_client, containers, op, carbon_data, intensity_status,
                    carbon_status, target >>

\* ---------------------------------------------------------- specifications

Step(p) ==
    \/ get_live_grid_status(p)
    \/ get_optimized_forecast(p)
    \/ manage_list(p)
    \/ manage_noop(p)
    \/ manage_stop(p)
    \/ manage_start(p)
    \/ manage_sleep(p)
    \/ route_primary(p)
    \/ route_fallback(p)

\* One caller: every operation runs alone, from its call to its return.
Next == \E p \in SeqCallers : Step(p)

Spec == Init /\ [][Next]_vars

\* Two callers whose operations interleave at every outside call, on a
\* connected control plane that lists the one heavy container.
InitConc ==
    InitWith({ << [name |-> HeavyName, status |-> s] >> : s \in ContainerStatus }, {TRUE})

NextConc == \E p \in ConcCallers : Step(p)

SpecConc == InitConc /\ [][NextConc]_vars

\* A call that has been entered and has not returned yet.
InFlight(p) == pc[p] \in {"manage", "scale", "sleep", "route", "fallback"}

\* The next step of a call in flight.  Every step is one synchronous outside
\* call that ends: the Docker calls respond or raise, time.sleep(5) elapses,
\* requests.get responds, fails or times out.
Progress(p) == InFlight(p) /\ Step(p)

\* The single caller, whose thread keeps running a call it has entered.
\* Entering a new call is never forced.
FairSpec == Spec /\ \A p \in SeqCallers : WF_vars(Progress(p))

\* ------------------------------------------------------ reading the log

Forecast == "get_optimized_forecast"
Poll == "get_live_grid_status"

EventsOf(p, ev) == SelectSeq(log[p], LAMBDA e : e.ev = ev)
Calls(p) == EventsOf(p, "call")
Count(p, ev) == Len(EventsOf(p, ev))

\* The status of the reading that started p's operation.
ReadStatus(p) == log[p][1].arg

ForecastReturned(p) == op[p] = Forecast /\ pc[p] = "returned"

\* The two shapes of an outcome.
IsSuccess(outcome) ==
    /\ Len(outcome) = 2
    /\ ~outcome[1].none
    /\ DOMAIN outcome[2] =
         {"selected_model", "carbon_context", "execution_carbon_footprint_kg"}
IsFailure(outcome) ==
    /\ Len(outcome) = 2
    /\ outcome[1].none
    /\ DOMAIN outcome[2] = {"error"}

\* ------------------------------------------------------------------ claims

\* C1: get_optimized_forecast never raises.  Whatever the control plane does
\* (no handle, list, start or stop failing) and whatever the services answer
\* (connection error, non-2xx, malformed payload, success), no exception
\* escapes the call, and what it returns is (result, metadata) or
\* (None, {error}).
C1_NeverRaises ==
    \A p \in Procs :
        op[p] = Forecast =>
            /\ pc[p] # "raised"
            /\ pc[p] = "returned" => (IsSuccess(ret[p]) \/ IsFailure(ret[p]))

\* C1's case: a LOW call returned an error after the listing failed, the
\* XGBoost payload was malformed and Holt-Winters was unreachable.
C1_Witness ==
    \E p \in Procs :
        /\ ForecastReturned(p)
        /\ IsFailure(ret[p])
        /\ Count(p, "list") = 1 /\ ~EventsOf(p, "list")[1].ok
        /\ Len(Calls(p)) = 2
        /\ Calls(p)[1].err = <<"DataFrame constructor not properly called!">>
        /\ ~Calls(p)[2].ok

\* C2: when status is LOW and both the XGBoost call and the Holt-Winters
\* fallback fail, the returned error string mentions the primary's failure
\* and the fallback's failure.
C2_BothCausesMentioned ==
    \A p \in Procs :
        ( /\ ForecastReturned(p)
          /\ ReadStatus(p) = "LOW"
          /\ Len(Calls(p)) = 2
          /\ ~Calls(p)[1].ok /\ ~Calls(p)[2].ok )
        => /\ IsFailure(ret[p])
           /\ Contains(ret[p][2].error, Calls(p)[1].err)
           /\ Contains(ret[p][2].error, Calls(p)[2].err)

\* C3: in a call whose reading is LOW the first downstream call goes to the
\* XGBoost service; in a call whose reading is HIGH the XGBoost service is
\* never called.
C3_StatusRouting ==
    \A p \in Procs :
        op[p] = Forecast =>
            /\ (ReadStatus(p) = "LOW" /\ Len(Calls(p)) >= 1)
                  => Calls(p)[1].arg = XGB_URL
            /\ ReadStatus(p) = "HIGH"
                  => \A i \in 1..Len(Calls(p)) : Calls(p)[i].arg # XGB_URL

\* C3's case: a HIGH call has returned after its one call, to Holt-Winters,
\* failed.
C3_Witness ==
    \E p \in Procs :
        /\ ForecastReturned(p)
        /\ ReadStatus(p) = "HIGH"
        /\ Len(Calls(p)) = 1
        /\ Calls(p)[1].arg = HW_URL /\ ~Calls(p)[1].ok

\* The LOW path's fallback happened and succeeded.
FallbackSucceeded(p) ==
    /\ ForecastReturned(p)
    /\ ReadStatus(p) = "LOW"
    /\ Len(Calls(p)) = 2
    /\ Calls(p)[1].arg = XGB_URL /\ ~Calls(p)[1].ok
    /\ Calls(p)[2].arg = HW_URL /\ Calls(p)[2].ok

\* C4: on LOW, when the XGBoost call fails and the Holt-Winters call then
\* succeeds, the result is not None and the label is the auto-fallback one,
\* neither the eco-mode nor the performance-mode label.
C4_FallbackCompleteness ==
    \A p \in Procs :
        FallbackSucceeded(p) =>
            /\ IsSuccess(ret[p])
            /\ ret[p][2].selected_model = LabelFallback
            /\ ret[p][2].selected_model \notin {LabelEco, LabelPerformance}

\* C4's case: the fallback answered with a bare list after XGBoost timed out.
C4_Witness ==
    \E p \in Procs :
        /\ FallbackSucceeded(p)
        /\ Calls(p)[1].err = <<"Service unreachable at", XGB_URL, "timed out">>
        /\ ret[p][1].rows = Rows2

\* C5: a get_optimized_forecast call reads the sensor exactly once, and the
\* status handed to manage_infrastructure, the status its scaling acts on and
\* the status that picks the routing branch are all the status of that one
\* reading, although a second read could have returned another status.
C5_SingleRead ==
    \A p \in Procs :
        op[p] = Forecast =>
            /\ Count(p, "read") = 1
            /\ Count(p, "manage") = 1
            /\ EventsOf(p, "manage")[1].arg = ReadStatus(p)
            /\ carbon_status[p] = ReadStatus(p)
            /\ intensity_status[p] = ReadStatus(p)
            /\ Count(p, "start") > 0 => ReadStatus(p) = "LOW"
            /\ Count(p, "stop") > 0 => ReadStatus(p) = "HIGH"
            /\ Len(Calls(p)) >= 1 =>
                  (Calls(p)[1].arg = XGB_URL <=> ReadStatus(p) = "LOW")

\* C5's case: a call read LOW, started the container for it and routed to
\* XGBoost for it.
C5_Witness ==
    \E p \in Procs :
        /\ ForecastReturned(p)
        /\ ReadStatus(p) = "LOW"
        /\ Count(p, "start") = 1
        /\ Calls(p)[1].arg = XGB_URL

\* The listed state of the target already is what the policy wants.
AlreadyAligned(p) ==
    /\ target[p] # NoTarget
    /\ \/ carbon_status[p] = "HIGH" /\ target[p].status # "running"
       \/ carbon_status[p] = "LOW" /\ target[p].status = "running"

\* C6: a manage_infrastructure(s) that finds the target already in the state
\* the policy wants for s (HIGH and not running, LOW and running) issues no
\* start, no stop and no warm-up sleep, and leaves the container as listed.
\* In particular a second manage_infrastructure(HIGH) on a stopped target
\* makes no start or stop call.
C6_IdempotentReconcile ==
    \A p \in SeqCallers :
        AlreadyAligned(p) =>
            /\ Count(p, "start") = 0
            /\ Count(p, "stop") = 0
            /\ Count(p, "sleep") = 0
            /\ containers[target[p].idx].status = target[p].status

\* C6's case: a HIGH reconciliation that listed the target as exited has
\* returned.
C6_Witness ==
    \E p \in SeqCallers :
        /\ op[p] = Poll /\ pc[p] = "returned"
        /\ carbon_status[p] = "HIGH"
        /\ AlreadyAligned(p) /\ target[p].status = "exited"

\* A control-plane step that did not do its work: the listing raised or held
\* no target, or start or stop raised.
CtlFailure(e) ==
    /\ e.ev \in {"list", "start", "stop"}
    /\ ~e.ok \/ e.arg = "not_found"

ServiceFor(status) == IF status = "LOW" THEN XGB_URL ELSE HW_URL

\* C7: manage_infrastructure never raises to its caller, and a failure of the
\* listing, of the target lookup, of start or of stop does not abort the
\* request: the get_optimized_forecast that ran it goes on to the routing
\* step and calls the service its status selects.
C7_BestEffort ==
    \A p \in Procs :
        /\ pc[p] # "raised"
        /\ (op[p] = Forecast /\ log[p] # <<>> /\ CtlFailure(log[p][Len(log[p])]))
              => pc[p] = "route"
        /\ (ForecastReturned(p) /\ \E i \in 1..Len(log[p]) : CtlFailure(log[p][i]))
              => /\ Len(Calls(p)) >= 1
                 /\ Calls(p)[1].arg = ServiceFor(ReadStatus(p))

\* C7's case: start raised, and the call still went to XGBoost and returned.
C7_Witness ==
    \E p \in Procs :
        /\ ForecastReturned(p)
        /\ Count(p, "start") = 1 /\ ~EventsOf(p, "start")[1].ok
        /\ Calls(p)[1].arg = XGB_URL

\* C8: what get_optimized_forecast returns is never partially populated.  It
\* is a result that is not None with metadata holding a non-empty label, the
\* reading that started the call and the execution footprint, or it is None
\* with metadata holding an error string and nothing else.
C8_OutcomeShape ==
    \A p \in Procs :
        ForecastReturned(p) =>
            \/ /\ IsSuccess(ret[p])
               /\ ret[p][2].selected_model # ""
               /\ ret[p][2].carbon_context = carbon_data[p]
               /\ ret[p][2].carbon_context \in Readings
               /\ ret[p][2].carbon_context.status = ReadStatus(p)
               /\ ret[p][2].execution_carbon_footprint_kg \in Nat
            \/ /\ IsFailure(ret[p])
               /\ Len(ret[p][2].error) > 0

\* C8's case: a success whose service reported no emissions.
C8_Witness ==
    \E p \in Procs :
        /\ ForecastReturned(p)
        /\ IsSuccess(ret[p])
        /\ ret[p][1].rows = Rows1
        /\ ret[p][2].execution_carbon_footprint_kg = DefaultEmissions

\* The control plane worked throughout p's operation: a handle, a listing
\* that held the target, and no start or stop that raised.
ControlPlaneWorked(p) ==
    /\ docker_client
    /\ Count(p, "list") = 1
    /\ target[p] # NoTarget
    /\ \A i \in 1..Len(log[p]) : ~CtlFailure(log[p][i])

NoXgbCall(p) == \A i \in 1..Len(Calls(p)) : Calls(p)[i].arg # XGB_URL

\* C9 as claimed: with a working control plane and no concurrent caller, a
\* LOW call returns with the target running and a HIGH call returns with the
\* target exited and XGBoost never called, whatever state the target was in.
C9_EndStateAsClaimed ==
    \A p \in SeqCallers :
        (ForecastReturned(p) /\ ControlPlaneWorked(p)) =>
            /\ ReadStatus(p) = "LOW" => containers[target[p].idx].status = "running"
            /\ ReadStatus(p) = "HIGH" =>
                  /\ containers[target[p].idx].status = "exited"
                  /\ NoXgbCall(p)

\* C9, amended: with a working control plane and no concurrent caller, a LOW
\* call returns with the target running; a HIGH call returns with XGBoost
\* never called and the target exited if it was listed as running, and else
\* in the state it was listed in (exited stays exited; a state such as
\* created is left as it is, not stopped).
C9_EndState ==
    \A p \in SeqCallers :
        (ForecastReturned(p) /\ ControlPlaneWorked(p)) =>
            /\ ReadStatus(p) = "LOW" => containers[target[p].idx].status = "running"
            /\ ReadStatus(p) = "HIGH" =>
                  /\ NoXgbCall(p)
                  /\ containers[target[p].idx].status # "running"
                  /\ containers[target[p].idx].status =
                        IF target[p].status = "running" THEN "exited" ELSE target[p].status

\* C9's case: a HIGH call has returned and the target, listed as created, is
\* still created.
C9_Witness ==
    \E p \in SeqCallers :
        /\ ForecastReturned(p) /\ ControlPlaneWorked(p)
        /\ ReadStatus(p) = "HIGH"
        /\ target[p].status = "created"
        /\ containers[target[p].idx].status = "created"

\* C10: a get_live_grid_status call reads the sensor once, runs
\* manage_infrastructure once with the status of that reading, calls neither
\* prediction service, and returns that reading as it was read.
C10_GetStatus ==
    \A p \in Procs :
        op[p] = Poll =>
            /\ Count(p, "read") = 1
            /\ Count(p, "manage") = 1
            /\ EventsOf(p, "manage")[1].arg = ReadStatus(p)
            /\ carbon_status[p] = ReadStatus(p)
            /\ Count(p, "list") <= 1
            /\ Len(Calls(p)) = 0
            /\ pc[p] \in {"manage", "scale", "sleep", "returned"}
            /\ pc[p] = "returned" =>
                  /\ ret[p] = << carbon_data[p] >>
                  /\ carbon_data[p] \in Readings
                  /\ carbon_data[p].status = ReadStatus(p)

\* C10's case: a poll that read HIGH stopped the running target and returned
\* the reading.
C10_Witness ==
    \E p \in Procs :
        /\ op[p] = Poll /\ pc[p] = "returned"
        /\ ReadStatus(p) = "HIGH"
        /\ Count(p, "stop") = 1 /\ EventsOf(p, "stop")[1].ok
        /\ ret[p] = << [carbon_intensity |-> 600, status |-> "HIGH"] >>

\* manage_infrastructure found a target and has taken its scaling decision.
ScalingDecided(p) ==
    /\ target[p] # NoTarget
    /\ pc[p] # "scale"

\* C11: with a handle and a matching target, manage_infrastructure(status)
\* issues stop exactly when status is HIGH and the listed state is running,
\* issues start exactly when status is LOW and the listed state is anything
\* but running (exited, created, ...), and issues neither otherwise; stop is
\* never issued under LOW and start never under HIGH.
C11_PolicyTable ==
    \A p \in Procs :
        /\ Count(p, "stop") > 0 => carbon_status[p] = "HIGH"
        /\ Count(p, "start") > 0 => carbon_status[p] = "LOW"
        /\ ScalingDecided(p) =>
              /\ Count(p, "stop") =
                    IF carbon_status[p] = "HIGH" /\ target[p].status = "running"
                    THEN 1 ELSE 0
              /\ Count(p, "start") =
                    IF carbon_status[p] = "LOW" /\ target[p].status # "running"
                    THEN 1 ELSE 0

\* C11's case: under LOW a target listed as created has been started.
C11_Witness ==
    \E p \in Procs :
        /\ ScalingDecided(p)
        /\ carbon_status[p] = "LOW"
        /\ target[p].status = "created"
        /\ Count(p, "start") = 1 /\ Count(p, "stop") = 0

\* manage_infrastructure has returned to its caller.
ManageDone(p) == pc[p] \in {"route", "fallback", "returned"}

StartSucceeded(p) == Count(p, "start") = 1 /\ EventsOf(p, "start")[1].ok

\* C12: the warm-up wait belongs to the LOW/start case only.  A
\* manage_infrastructure call sleeps, for the warm-up delay and once, exactly
\* when its start call returned without raising; the sleep follows that start
\* directly and is over before manage_infrastructure returns, so before any
\* downstream call of the same operation.  There is no sleep after a stop, on
\* a no-op, when no target was found, or when start raised.
C12_WarmupOnlyAfterStart ==
    \A p \in Procs :
        /\ Count(p, "sleep") <= 1
        /\ \A i \in 1..Len(log[p]) :
              log[p][i].ev = "sleep" =>
                  /\ i > 1
                  /\ log[p][i - 1].ev = "start" /\ log[p][i - 1].ok
                  /\ log[p][i].t = WarmupDelay
                  /\ carbon_status[p] = "LOW"
        /\ pc[p] = "sleep" <=>
              (StartSucceeded(p) /\ log[p][Len(log[p])].ev = "start")
        /\ ManageDone(p) => (Count(p, "sleep") = 1 <=> StartSucceeded(p))
        /\ \A i, j \in 1..Len(log[p]) :
              (log[p][i].ev = "call" /\ log[p][j].ev = "sleep") => j < i

\* C12's case: a call started the target, slept, and then called XGBoost.
C12_Witness ==
    \E p \in Procs :
        /\ ForecastReturned(p)
        /\ StartSucceeded(p)
        /\ Count(p, "sleep") = 1
        /\ Calls(p)[1].arg = XGB_URL

\* C13: there is no retry beyond the one fallback hop.  A LOW call makes at
\* most two downstream calls: XGBoost once, then Holt-Winters once, and
\* Holt-Winters only after XGBoost failed.  A HIGH call makes exactly one,
\* to Holt-Winters, and when that one fails it returns the failure at once.
C13_NoRetry ==
    \A p \in Procs :
        op[p] = Forecast =>
            /\ ReadStatus(p) = "LOW" =>
                  /\ Len(Calls(p)) <= 2
                  /\ Len(Calls(p)) >= 1 => Calls(p)[1].arg = XGB_URL
                  /\ Len(Calls(p)) = 2 =>
                        (~Calls(p)[1].ok /\ Calls(p)[2].arg = HW_URL)
                  /\ (Len(Calls(p)) = 2 \/ (Len(Calls(p)) = 1 /\ Calls(p)[1].ok))
                        => pc[p] = "returned"
            /\ ReadStatus(p) = "HIGH" =>
                  /\ Len(Calls(p)) <= 1
                  /\ Len(Calls(p)) = 1 =>
                        /\ Calls(p)[1].arg = HW_URL
                        /\ pc[p] = "returned"
                        /\ ~Calls(p)[1].ok => IsFailure(ret[p])
            /\ pc[p] = "returned" => Len(Calls(p)) >= 1

\* C13's case: a HIGH call returned a failure after its single call failed.
C13_Witness ==
    \E p \in Procs :
        /\ ForecastReturned(p)
        /\ ReadStatus(p) = "HIGH"
        /\ Len(Calls(p)) = 1 /\ ~Calls(p)[1].ok
        /\ IsFailure(ret[p])
        /\ ret[p][2].error[1] = "Eco-service unavailable:"

\* The three ways a call can fail: the request (connection or timeout), the
\* status check (non-2xx), the payload (it cannot be shaped into rows).
FailingResponse(resp) ==
    resp.kind \in {"timeout", "http_error"} \/ resp.shape = "scalar"

\* C14: on the LOW path a failure of the XGBoost call of any kind (connection
\* or timeout error, non-2xx status, malformed payload) leads to the fallback
\* call to Holt-Winters; none ends the request without it.
C14_EveryFailureFallsBack ==
    \A p \in Procs :
        ( /\ op[p] = Forecast
          /\ ReadStatus(p) = "LOW"
          /\ Len(responses[p]) >= 1
          /\ FailingResponse(responses[p][1]) )
        => /\ ~Calls(p)[1].ok
           /\ pc[p] \in {"fallback", "returned"}
           /\ pc[p] = "fallback" => Len(Calls(p)) = 1
           /\ pc[p] = "returned" =>
                 (Len(Calls(p)) = 2 /\ Calls(p)[2].arg = HW_URL)

\* C14's case: XGBoost answered with a payload that is no table, and the call
\* returned what Holt-Winters answered.
C14_Witness ==
    \E p \in Procs :
        /\ ForecastReturned(p)
        /\ ReadStatus(p) = "LOW"
        /\ Len(responses[p]) = 2
        /\ responses[p][1].shape = "scalar"
        /\ Calls(p)[2].arg = HW_URL /\ Calls(p)[2].ok
        /\ IsSuccess(ret[p])

LastCall(p) == Calls(p)[Len(Calls(p))]

\* C15: on a success the label names the service and mode that produced the
\* returned rows: the performance label only for LOW with a successful
\* XGBoost call, the auto-fallback label only for LOW with a failed XGBoost
\* call and a successful Holt-Winters call, the eco label only for HIGH with a
\* successful Holt-Winters call.  A total failure is None with a non-empty
\* error string, never a success-shaped result.
C15_LabelNamesProducer ==
    \A p \in Procs :
        ForecastReturned(p) =>
            /\ Len(Calls(p)) >= 1
            /\ Len(responses[p]) = Len(Calls(p))
            /\ IF LastCall(p).ok
               THEN /\ IsSuccess(ret[p])
                    /\ ret[p][1] =
                          call_service(LastCall(p).arg,
                                       responses[p][Len(responses[p])]).df
                    /\ ret[p][2].selected_model \in
                          {LabelPerformance, LabelFallback, LabelEco}
                    /\ ret[p][2].selected_model = LabelPerformance <=>
                          /\ ReadStatus(p) = "LOW"
                          /\ Len(Calls(p)) = 1
                          /\ LastCall(p).arg = XGB_URL
                    /\ ret[p][2].selected_model = LabelFallback <=>
                          /\ ReadStatus(p) = "LOW"
                          /\ Len(Calls(p)) = 2
                          /\ ~Calls(p)[1].ok
                          /\ LastCall(p).arg = HW_URL
                    /\ ret[p][2].selected_model = LabelEco <=>
                          /\ ReadStatus(p) = "HIGH"
                          /\ Len(Calls(p)) = 1
                          /\ LastCall(p).arg = HW_URL
               ELSE /\ IsFailure(ret[p])
                    /\ Len(ret[p][2].error) > 0

\* C15's case: a HIGH call returned the rows of Holt-Winters under the eco
\* label.
C15_Witness ==
    \E p \in Procs :
        /\ ForecastReturned(p)
        /\ ReadStatus(p) = "HIGH"
        /\ LastCall(p).ok
        /\ ret[p][2].selected_model = LabelEco
        /\ ret[p][1].rows = Rows2

\* What a get_optimized_forecast returns, computed from its reading and from
\* what its downstream calls met, and from nothing else: neither the handle,
\* nor the containers, nor what the control plane did.
OutcomeFor(reading, resps) ==
    LET first == call_service(ServiceFor(reading.status), resps[1])
    IN IF reading.status = "LOW"
       THEN IF first.exc = NoExc
            THEN SuccessOutcome(first.df, LabelPerformance, reading, first.emissions)
            ELSE LET second == call_service(HW_URL, resps[2])
                 IN IF second.exc = NoExc
                    THEN SuccessOutcome(second.df, LabelFallback, reading, second.emissions)
                    ELSE FailureOutcome(AllFailedMessage(first.exc, second.exc))
       ELSE IF first.exc = NoExc
            THEN SuccessOutcome(first.df, LabelEco, reading, first.emissions)
            ELSE FailureOutcome(EcoFailedMessage(first.exc))

\* The control-plane calls and waits of p's operation.
ControlPlaneEvents(p) ==
    Count(p, "list") + Count(p, "start") + Count(p, "stop") + Count(p, "sleep")

\* C16: degraded mode.  Without a handle every manage_infrastructure returns
\* at once: no list, no start, no stop, no sleep; get_optimized_forecast goes
\* on to the routing step, and what it returns is what the same reading and
\* the same service responses give with a handle.
C16_DegradedMode ==
    \A p \in Procs :
        /\ ~docker_client =>
              /\ ControlPlaneEvents(p) = 0
              /\ target[p] = NoTarget
              /\ pc[p] \in {"idle", "manage", "route", "fallback", "returned"}
              /\ (op[p] = Forecast /\ Len(log[p]) = 2) => pc[p] \in {"manage", "route"}
        /\ ForecastReturned(p) => ret[p] = OutcomeFor(carbon_data[p], responses[p])

\* C16's case: without a handle a LOW call has returned the fallback's rows.
C16_Witness ==
    \E p \in Procs :
        /\ ~docker_client
        /\ ForecastReturned(p)
        /\ ReadStatus(p) = "LOW"
        /\ ControlPlaneEvents(p) = 0
        /\ Len(Calls(p)) = 2
        /\ IsSuccess(ret[p])

\* The services a status sends a request to, in order, and the time each
\* call may take.
CallPlan(status) == IF status = "LOW" THEN << XGB_URL, HW_URL >> ELSE << HW_URL >>

\* How many of them are called, given what the calls meet.
CallsNeeded(status, resps) ==
    IF status = "LOW" /\ FailingResponse(resps[1]) THEN 2 ELSE 1

\* C17: routing is a function of the status alone.  The downstream calls of a
\* get_optimized_forecast, and what it returns, follow from its reading and
\* the responses of the services, whatever the target's state and whatever
\* the control plane did (no handle, target not found, start or stop
\* raising); on LOW XGBoost is called first even when the target is not
\* running after manage_infrastructure.
C17_RoutingIgnoresControlPlane ==
    \A p \in Procs :
        op[p] = Forecast =>
            /\ pc[p] # "raised"
            /\ Len(responses[p]) = Len(Calls(p))
            /\ Len(Calls(p)) <= Len(CallPlan(ReadStatus(p)))
            /\ \A i \in 1..Len(Calls(p)) :
                  /\ Calls(p)[i].arg = CallPlan(ReadStatus(p))[i]
                  /\ Calls(p)[i].t = TimeoutOf(CallPlan(ReadStatus(p))[i])
            /\ pc[p] = "returned" =>
                  /\ Len(Calls(p)) = CallsNeeded(ReadStatus(p), responses[p])
                  /\ ret[p] = OutcomeFor(carbon_data[p], responses[p])

\* C17's case: start raised, the target is still not running, and the LOW
\* call went to XGBoost first all the same.
C17_Witness ==
    \E p \in Procs :
        /\ ForecastReturned(p)
        /\ ReadStatus(p) = "LOW"
        /\ Count(p, "start") = 1 /\ ~EventsOf(p, "start")[1].ok
        /\ containers[target[p].idx].status # "running"
        /\ Calls(p)[1].arg = XGB_URL /\ Calls(p)[1].ok

\* C18: manage_infrastructure takes no lock and keeps no listed state between
\* calls: each call decides from the listing it made itself, so two
\* concurrent calls with the same status can both list the state before the
\* transition and both issue the same start (or stop).  With start and stop
\* idempotent in the control plane, once both calls are over the target is in
\* the state the policy wants for that status: running for LOW, not running
\* for HIGH.
C18_ConcurrentReconcile ==
    /\ \A p \in ConcCallers :
          (pc[p] = "scale" \/ Count(p, "start") + Count(p, "stop") > 0) =>
              /\ Count(p, "list") = 1
              /\ EventsOf(p, "list")[1].arg = target[p].status
              /\ Count(p, "start") > 0 =>
                    (carbon_status[p] = "LOW" /\ target[p].status # "running")
              /\ Count(p, "stop") > 0 =>
                    (carbon_status[p] = "HIGH" /\ target[p].status = "running")
    /\ \A p \in ConcCallers :
          ScalingDecided(p) =>
              /\ (carbon_status[p] = "LOW" /\ target[p].status # "running")
                    => Count(p, "start") = 1
              /\ (carbon_status[p] = "HIGH" /\ target[p].status = "running")
                    => Count(p, "stop") = 1
    /\ \A p, q \in ConcCallers :
          ( /\ p # q
            /\ ManageDone(p) /\ ManageDone(q)
            /\ carbon_status[p] = carbon_status[q]
            /\ ControlPlaneWorked(p) /\ ControlPlaneWorked(q) )
          => /\ carbon_status[p] = "LOW" =>
                   containers[target[p].idx].status = "running"
             /\ carbon_status[p] = "HIGH" =>
                   containers[target[p].idx].status # "running"

\* C18's case: two LOW calls have both listed the target as exited; one has
\* started it since, and the other, deciding from its own listing, is about
\* to start the now running target again.
C18_Witness ==
    \E p, q \in ConcCallers :
        /\ p # q
        /\ carbon_status[p] = "LOW" /\ carbon_status[q] = "LOW"
        /\ target[p].status = "exited" /\ target[q].status = "exited"
        /\ StartSucceeded(p)
        /\ pc[q] = "scale"
        /\ containers[target[q].idx].status = "running"
        /\ ScaleAction(carbon_status[q], target[q].status) = "start"

\* C19: the warm-up wait is local to the call that issued the start.  Only a
\* call whose own start succeeded sleeps; a call that listed the target as
\* running does not, and while one caller sleeps every step of another caller
\* stays possible, its XGBoost call included.  Within one call the status
\* that was reconciled is the status that routes; across calls nothing keeps
\* the target in the state a call reconciled it to.
C19_WarmupIsLocal ==
    \A p \in ConcCallers :
        /\ (Count(p, "sleep") > 0 \/ pc[p] = "sleep") => StartSucceeded(p)
        /\ target[p].status = "running" =>
              (Count(p, "sleep") = 0 /\ pc[p] # "sleep")
        /\ op[p] = Forecast =>
              /\ carbon_status[p] = ReadStatus(p)
              /\ intensity_status[p] = ReadStatus(p)
              /\ Len(Calls(p)) >= 1 =>
                    Calls(p)[1].arg = ServiceFor(carbon_status[p])
        /\ pc[p] = "sleep" =>
              \A q \in ConcCallers \ {p} :
                  /\ pc[q] = "manage" => ENABLED manage_list(q)
                  /\ pc[q] = "route" => ENABLED route_primary(q)
                  /\ pc[q] = "fallback" => ENABLED route_fallback(q)
                  /\ Ready(q) => ENABLED get_optimized_forecast(q)

\* C19's case: one caller is still in its warm-up sleep; the other, a LOW
\* get_optimized_forecast that listed the target as running, did not sleep
\* and has already called XGBoost.
C19_Witness ==
    \E p, q \in ConcCallers :
        /\ p # q
        /\ pc[p] = "sleep"
        /\ op[q] = Forecast /\ ReadStatus(q) = "LOW"
        /\ target[q].status = "running"
        /\ Count(q, "sleep") = 0
        /\ Len(Calls(q)) >= 1 /\ Calls(q)[1].arg = XGB_URL

\* C19's second case: a LOW get_optimized_forecast has started the target,
\* slept and is about to call XGBoost, and the target is exited again: a
\* get_live_grid_status that read HIGH listed it as running and stopped it.
C19_StopRace ==
    \E p, q \in ConcCallers :
        /\ p # q
        /\ op[p] = Forecast /\ ReadStatus(p) = "LOW" /\ pc[p] = "route"
        /\ StartSucceeded(p) /\ Count(p, "sleep") = 1
        /\ op[q] = Poll /\ ReadStatus(q) = "HIGH" /\ pc[q] = "returned"
        /\ target[q].status = "running"
        /\ Count(q, "stop") = 1 /\ EventsOf(q, "stop")[1].ok
        /\ containers[target[p].idx].status = "exited"
        /\ ENABLED route_primary(p)

\* C20: every call returns.  A call in flight reaches its return, and on the
\* way it makes at most one list, one start or stop, one wait and two
\* downstream calls, so its whole log has at most seven entries.
C20_Terminates ==
    /\ [](\A p \in SeqCallers :
            /\ Count(p, "read") <= 1
            /\ Count(p, "list") <= 1
            /\ Count(p, "start") + Count(p, "stop") <= 1
            /\ Count(p, "sleep") <= 1
            /\ Len(Calls(p)) <= 2
            /\ Len(log[p]) <= 7)
    /\ \A p \in SeqCallers : InFlight(p) ~> (pc[p] = "returned")

\* C20's case: the longest call has returned: a get_optimized_forecast that
\* listed, started the target, waited and made both downstream calls.
C20_Witness ==
    \E p \in SeqCallers :
        /\ op[p] = Forecast
        /\ pc[p] = "returned"
        /\ Count(p, "list") = 1
        /\ Count(p, "start") = 1
        /\ Count(p, "sleep") = 1
        /\ Len(Calls(p)) = 2
        /\ Len(log[p]) = 7

====
